---- MODULE Spec2Model ----
\* Model of avito_to_sheets.py: the day-level ingestion and reconciliation
\* of per-listing metrics into the 'data' worksheet.
\*
\* Scope of the model
\*   - HTTP statuses are the ones the code can see after the transport retry
\*     policy (raise_on_status=False): 200, 404 and 500 (any other >= 400).
\*   - Metric values are numbers; PROFILE_METRICS not present in a record are
\*     read as 0, exactly as m.get(key, 0) does.
\*   - The worksheet is a sequence of rows of cells; row 1 is the header row,
\*     row 2 the alias row.  Grid dimensions (resize, freeze) are not modelled.
\*   - Dates are day numbers; strftime("%Y-%m-%d") is the table DateStr.
EXTENDS Integers, Sequences, FiniteSets, TLC

\* ---------------------------------------------------------------- bounds
MaxItem == 3
MaxDate == 2
MaxOldRows == 2
MaxRecs == 2
BatchSize == 2
PerPage == 2
PageCeiling == 4
Limit == 2

\* ------------------------------------------------------------- utilities
RECURSIVE SetToSortedSeq(_)
SetToSortedSeq(S) ==
  IF S = {} THEN <<>>
  ELSE LET m == CHOOSE x \in S : \A y \in S : x <= y
       IN <<m>> \o SetToSortedSeq(S \ {m})

Range(s) == { s[i] : i \in 1..Len(s) }

Min(a, b) == IF a < b THEN a ELSE b

Prefix(s, n) == SubSeq(s, 1, Min(n, Len(s)))

RECURSIVE Join(_, _)
Join(sep, s) ==
  IF Len(s) = 0 THEN ""
  ELSE IF Len(s) = 1 THEN s[1]
  ELSE s[1] \o sep \o Join(sep, Tail(s))

RECURSIVE SeqsUpTo(_, _)
SeqsUpTo(S, n) ==
  IF n = 0 THEN { <<>> }
  ELSE LET shorter == SeqsUpTo(S, n - 1)
       IN shorter \cup { Append(s, x) : s \in { t \in shorter : Len(t) = n - 1 }, x \in S }

\* the_date.strftime("%Y-%m-%d")
DateStr(d) == <<"2025-06-26", "2025-06-27", "2025-06-28", "2025-06-29">>[d]

Dates == 1..MaxDate

\* a date the run never asks for (a neighbour leaked by an inclusive range)
OtherDateStr == "2025-06-25"

\* ------------------------------------------------------- program tables
PROFILE_METRICS ==
  << "impressions", "views", "impressionsToViewsConversion",
     "contacts", "contactsShowPhone", "contactsMessenger",
     "contactsShowPhoneAndMessenger", "contactsSbcDiscount",
     "viewsToContactsConversion", "favorites",
     "averageViewCost", "averageContactCost",
     "allSpending", "spending", "presenceSpending",
     "promoSpending", "restSpending", "commission", "spendingBonus" >>

VAS_FLAGS == << "vip", "highlight", "pushup", "premium", "xl" >>

ZeroFlags == [ f \in Range(VAS_FLAGS) |-> 0 ]

DATA_HEADERS ==
  << "date", "item_id", "title" >>
  \o SubSeq(PROFILE_METRICS, 1, 12)
  \o << "uniqViews", "uniqContacts" >>
  \o SubSeq(PROFILE_METRICS, 13, 19)
  \o << "vas_ids", "vas_finish_time", "vas_next_schedule",
        "vas_flag_vip", "vas_flag_highlight", "vas_flag_pushup",
        "vas_flag_premium", "vas_flag_xl" >>

\* HEADER_ALIASES.get(key, key): the second-row caption of a column
HEADER_ALIASES(key) ==
  IF key \in Range(DATA_HEADERS) THEN "alias:" \o key ELSE key

\* ------------------------------------------------------------ worksheet
\* ws.row_values(i): the row without its trailing empty cells
RECURSIVE TrimRow(_)
TrimRow(r) ==
  IF Len(r) = 0 THEN r
  ELSE IF r[Len(r)] = "" THEN TrimRow(SubSeq(r, 1, Len(r) - 1))
  ELSE r

row_values(rows, i) == IF i <= Len(rows) THEN TrimRow(rows[i]) ELSE <<>>

\* ws.update('<i>:<i>', [vals]): overwrite the leading cells of row i
UpdateRow(rows, i, vals) ==
  LET grown == rows \o [ k \in 1..(i - Len(rows)) |-> <<>> ]
      old   == grown[i]
      new   == vals \o SubSeq(old, Len(vals) + 1, Len(old))
  IN [ grown EXCEPT ![i] = new ]

\* a header-ensure that rewrites the header row as the required columns
AddMissingReset(headers, todo) == todo

\* the loop "for h in DATA_HEADERS: if h not in headers: headers.append(h)"
RECURSIVE AddMissing(_, _)
AddMissing(headers, todo) ==
  IF Len(todo) = 0 THEN headers
  ELSE IF todo[1] \in Range(headers) THEN AddMissing(headers, Tail(todo))
  ELSE AddMissing(Append(headers, todo[1]), Tail(todo))

ensure_alias_row(rows) ==
  LET headers == row_values(rows, 1)
  IN IF Len(headers) = 0 THEN rows
     ELSE UpdateRow(rows, 2, [ k \in 1..Len(headers) |-> HEADER_ALIASES(headers[k]) ])

\* header-ensure step of process_one_day (alias row refreshed only on change)
EnsureHeaders(rows) ==
  LET headers == row_values(rows, 1)
      wanted  == AddMissing(headers, DATA_HEADERS)
  IN IF wanted # headers
     THEN ensure_alias_row(UpdateRow(rows, 1, wanted))
     ELSE rows

\* header-ensure step of connect_sheet (alias row always refreshed)
ConnectExisting(rows) ==
  LET headers == row_values(rows, 1)
      wanted  == AddMissing(headers, DATA_HEADERS)
  IN ensure_alias_row(IF wanted # headers THEN UpdateRow(rows, 1, wanted) ELSE rows)

ConnectCreated == ensure_alias_row(<< DATA_HEADERS >>)

\* ws.findall(date_str, in_column=1): the row numbers whose first cell matches
findall(rows, date_str) ==
  { i \in 1..Len(rows) : Len(rows[i]) >= 1 /\ rows[i][1] = date_str }

\* ws.delete_rows(i)
delete_rows(rows, i) ==
  IF i \in 1..Len(rows)
  THEN SubSeq(rows, 1, i - 1) \o SubSeq(rows, i + 1, Len(rows))
  ELSE rows

\* the matches in ascending row order
SortedAscending(S) == SetToSortedSeq(S)

\* sorted(matches, key=row, reverse=True)
RECURSIVE SortedDesc(_)
SortedDesc(S) ==
  IF S = {} THEN <<>>
  ELSE LET m == CHOOSE x \in S : \A y \in S : x >= y
       IN <<m>> \o SortedDesc(S \ {m})

RECURSIVE DeleteEach(_, _)
DeleteEach(rows, order) ==
  IF Len(order) = 0 THEN rows
  ELSE DeleteEach(IF order[1] > 1 THEN delete_rows(rows, order[1]) ELSE rows,
                  Tail(order))

\* a clear_date that deletes the matches in ascending row order
clear_date_ascending(rows, date_str) ==
  DeleteEach(rows, SetToSortedSeq(findall(rows, date_str)))

\* clear_date: delete the matches below row 1, last row first
clear_date(rows, date_str) == DeleteEach(rows, SortedDesc(findall(rows, date_str)))

\* a normalisation that hands the rows on as they were built
NormalizeRowAsBuilt(r, width) == r

\* pad or cut a row to the header width
NormalizeRow(r, width) ==
  IF Len(r) < width THEN r \o [ k \in 1..(width - Len(r)) |-> "" ]
  ELSE IF Len(r) > width THEN SubSeq(r, 1, width)
  ELSE r

\* a write that appends without clearing the date first
WriteDayNoClear(rows, rows_out, date_str) ==
  IF Len(rows_out) = 0 THEN rows
  ELSE LET withHdr == EnsureHeaders(rows)
           width   == Len(row_values(withHdr, 1))
       IN withHdr \o [ k \in 1..Len(rows_out) |-> NormalizeRow(rows_out[k], width) ]

\* a write without the "if not rows_out: return" guard
WriteDayNoGuard(rows, rows_out, date_str) ==
  LET withHdr == EnsureHeaders(rows)
      cleared == clear_date(withHdr, date_str)
      width   == Len(row_values(cleared, 1))
  IN cleared \o [ k \in 1..Len(rows_out) |-> NormalizeRow(rows_out[k], width) ]

\* step 4 of process_one_day: nothing at all for an empty row set, otherwise
\* header-ensure, clear the date, normalise and append
WriteDay(rows, rows_out, date_str) ==
  IF Len(rows_out) = 0 THEN rows
  ELSE LET withHdr == EnsureHeaders(rows)
           cleared == clear_date(withHdr, date_str)
           width   == Len(row_values(cleared, 1))
       IN cleared \o [ k \in 1..Len(rows_out) |-> NormalizeRow(rows_out[k], width) ]

\* ------------------------------------------------------ upstream values
Items == 1..MaxItem

\* a record of the primary endpoint: the identifier sits under idKey, the
\* date under dateKey, m maps the metric names the record carries to values
CanonicalRecs ==
  [ idKey : {"itemId"}, dateKey : {"date"}, id : 1..2,
    date : {DateStr(d) : d \in Dates} \cup {OtherDateStr},
    m : { [ k \in {"views"} |-> v ] : v \in 0..1 } ]

ShapedRecs ==
  [ idKey : {"itemId", "item_id", "itemID"}, dateKey : {"date", "day", "period"},
    id : 1..2, date : {DateStr(1), OtherDateStr},
    m : { [ k \in {"views"} |-> v ] : v \in 0..1 } ]

\* it.get(key, 0)
Get(m, key) == IF key \in DOMAIN m THEN m[key] ELSE 0

\* it.get("itemId") or it.get("item_id") or it.get("itemID")   (0 is "absent")
FetcherId(it) == IF it.idKey \in {"itemId", "item_id", "itemID"} THEN it.id ELSE 0

\* it.get("date") or it.get("day") or it.get("period")         ("" is "absent")
FetcherDate(it) == IF it.dateKey \in {"date", "day", "period"} THEN it.date ELSE ""

\* a fetcher that keeps every record of a page
AcceptedAll(items) == items

\* the records of one page that the fetcher appends to out
RECURSIVE Accepted(_)
Accepted(items) ==
  IF Len(items) = 0 THEN <<>>
  ELSE (IF FetcherId(items[1]) # 0 /\ FetcherDate(items[1]) # ""
        THEN << items[1] >> ELSE <<>>) \o Accepted(Tail(items))

EmptyPage == [ status |-> 200, items |-> <<>> ]

PageOf(script, k) == IF k <= Len(script) THEN script[k] ELSE EmptyPage

\* fetch_profile_stats_one_day against a server that answers request k with
\* PageOf(script, k); requests lists the offsets asked for, in order
RECURSIVE FetchLoop(_, _, _, _, _)
FetchLoop(script, limit, k, out, requests) ==
  LET r    == PageOf(script, k)
      reqs == Append(requests, (k - 1) * limit)
  IN IF r.status >= 400
     THEN [ raised |-> TRUE, out |-> <<>>, requests |-> reqs ]
     ELSE IF Len(r.items) = 0
     THEN [ raised |-> FALSE, out |-> out, requests |-> reqs ]
     ELSE IF Len(r.items) < limit
     THEN [ raised |-> FALSE, out |-> out \o Accepted(r.items), requests |-> reqs ]
     ELSE FetchLoop(script, limit, k + 1, out \o Accepted(r.items), reqs)

fetch_profile_stats_one_day(script, limit) == FetchLoop(script, limit, 1, <<>>, <<>>)

\* int(it.get("itemId")) raises when the record has no "itemId" key
ReconcilerIdRaises(it) == it.idKey # "itemId"

\* it.get("date") or it.get("day") or ""
ReconcilerDate(it) == IF it.dateKey \in {"date", "day"} THEN it.date ELSE ""

\* the first loop of the primary branch: TRUE when it raises
PrimaryRaises(prof) == \E i \in 1..Len(prof) : ReconcilerIdRaises(prof[i])

\* active_ids_today after the first loop of the primary branch
PrimaryActive(prof, date_str) ==
  { prof[i].id : i \in { j \in 1..Len(prof) : ReconcilerDate(prof[j]) = date_str } }

\* agg[iid][key]: the sum of the metric over the date's records of the listing
RECURSIVE AggVal(_, _, _, _)
AggVal(prof, date_str, iid, key) ==
  IF Len(prof) = 0 THEN 0
  ELSE (IF prof[1].id = iid /\ ReconcilerDate(prof[1]) = date_str
        THEN Get(prof[1].m, key) ELSE 0)
       + AggVal(Tail(prof), date_str, iid, key)

\* ----------------------------------------------------- listing details
VasEntry(code) == [ vas_id |-> code, finish_time |-> "f-" \o code, schedule |-> << "s-" \o code >> ]

EmptyInfo == [ title |-> "", vas |-> <<>> ]

\* answers of the detail endpoint
DetailResponses ==
  { [ status |-> 404, body |-> EmptyInfo ],
    [ status |-> 500, body |-> EmptyInfo ],
    [ status |-> 200, body |-> [ title |-> "detail title", vas |-> << VasEntry("vip") >> ] ],
    [ status |-> 200, body |-> [ title |-> "", vas |-> << VasEntry("xl"), VasEntry("boost") >> ] ] }

\* a get_item_info that raises on a 404 as on any other error status
get_item_info_strict(resp) ==
  IF resp.status >= 400 THEN [ raised |-> TRUE, info |-> EmptyInfo ]
  ELSE [ raised |-> FALSE, info |-> resp.body ]

\* a get_item_info that swallows every error status
get_item_info_lenient(resp) ==
  [ raised |-> FALSE, info |-> IF resp.status >= 400 THEN EmptyInfo ELSE resp.body ]

\* get_item_info: 404 gives {}, any other status >= 400 raises
get_item_info(resp) ==
  IF resp.status = 404 THEN [ raised |-> FALSE, info |-> EmptyInfo ]
  ELSE IF resp.status >= 400 THEN [ raised |-> TRUE, info |-> EmptyInfo ]
  ELSE [ raised |-> FALSE, info |-> resp.body ]

VasIds(vas_list)    == Join(",", [ k \in 1..Len(vas_list) |-> vas_list[k].vas_id ])
VasFinish(vas_list) == Join(",", [ k \in 1..Len(vas_list) |-> vas_list[k].finish_time ])
VasSched(vas_list)  == Join("|", [ k \in 1..Len(vas_list) |-> Join(",", vas_list[k].schedule) ])

\* "for v in vas_list: if vid in flags: flags[vid] = 1"
RaiseFlags(flags, vas_list) ==
  [ f \in DOMAIN flags |->
      IF \E k \in 1..Len(vas_list) : vas_list[k].vas_id = f THEN 1 ELSE flags[f] ]

FlagCells(flags) == [ k \in 1..Len(VAS_FLAGS) |-> flags[VAS_FLAGS[k]] ]

\* the row of the primary branch (lines 450-467)
PrimaryRow(date_str, iid, title, prof, vas_list, flags) ==
  << date_str, ToString(iid), title >>
  \o [ k \in 1..12 |-> AggVal(prof, date_str, iid, PROFILE_METRICS[k]) ]
  \o << 0, 0 >>
  \o [ k \in 1..7 |-> AggVal(prof, date_str, iid, PROFILE_METRICS[12 + k]) ]
  \o << VasIds(vas_list), VasFinish(vas_list), VasSched(vas_list) >>
  \o FlagCells(flags)

\* a fallback row that reports the unique views in the "views" column
FallbackRowInViews(date_str, iid, title, vals, vas_list, flags) ==
  << date_str, ToString(iid), title >>
  \o << 0, vals.uniqViews >> \o [ k \in 1..10 |-> 0 ]
  \o << vals.uniqViews, vals.uniqContacts >>
  \o [ k \in 1..7 |-> 0 ]
  \o << VasIds(vas_list), VasFinish(vas_list), VasSched(vas_list) >>
  \o FlagCells(flags)

\* the row of the fallback branch (lines 512-528)
FallbackRow(date_str, iid, title, vals, vas_list, flags) ==
  << date_str, ToString(iid), title >>
  \o [ k \in 1..12 |-> 0 ]
  \o << vals.uniqViews, vals.uniqContacts >>
  \o [ k \in 1..7 |-> 0 ]
  \o << VasIds(vas_list), VasFinish(vas_list), VasSched(vas_list) >>
  \o FlagCells(flags)

\* --------------------------------------------------------- fallback tier
\* dict assignment d[k] = v
Put(f, k, v) == [ x \in (DOMAIN f) \cup {k} |-> IF x = k THEN v ELSE f[x] ]

EmptyMap == [ x \in {} |-> 0 ]

\* a batch that is not cut to the batch size: everything from offset i on
BatchAtUncut(item_ids, i) == SubSeq(item_ids, i + 1, Len(item_ids))

\* the batch the loop "for i in range(0, len(batch_ids), 200)" sends at
\* offset i: batch_ids[i:i+200], cut once more by stats_v1 (item_ids[:200])
BatchAt(item_ids, i) ==
  Prefix(SubSeq(item_ids, i + 1, Min(i + BatchSize, Len(item_ids))), BatchSize)

\* it.get("itemId") or it.get("item_id")
FallbackId(it) == IF it.idKey \in {"itemId", "item_id"} THEN it.id ELSE 0

\* the inner loop over it["stats"]: entries of the date are summed
RECURSIVE AddStats(_, _, _, _)
AddStats(active_map, iid, stats, date_str) ==
  IF Len(stats) = 0 THEN active_map
  ELSE IF stats[1].date = date_str
  THEN LET rec == IF iid \in DOMAIN active_map THEN active_map[iid]
                  ELSE [ uniqViews |-> 0, uniqContacts |-> 0 ]
           new == [ uniqViews    |-> rec.uniqViews + stats[1].uniqViews,
                    uniqContacts |-> rec.uniqContacts + stats[1].uniqContacts ]
       IN AddStats(Put(active_map, iid, new), iid, Tail(stats), date_str)
  ELSE AddStats(active_map, iid, Tail(stats), date_str)

\* the loop over the items of one stats_v1 response
RECURSIVE AddItems(_, _, _)
AddItems(active_map, items, date_str) ==
  IF Len(items) = 0 THEN active_map
  ELSE IF FallbackId(items[1]) = 0 THEN AddItems(active_map, Tail(items), date_str)
  ELSE AddItems(AddStats(active_map, FallbackId(items[1]), items[1].stats, date_str),
                Tail(items), date_str)

Stat(date_str, v, c) == [ date |-> date_str, uniqViews |-> v, uniqContacts |-> c ]

\* what the legacy endpoint may say about one listing on date_str
StatsPool(date_str) ==
  { << Stat(date_str, 0, 0) >>,
    << Stat(OtherDateStr, 1, 1) >>,
    << Stat(date_str, 1, 0), Stat(date_str, 1, 1) >> }

\* answers of the legacy endpoint to a batch: an error, or entries for some
\* of the listings of the batch, in batch order
RECURSIVE ItemsFor(_, _, _)
ItemsFor(batch, chosen, statsOf) ==
  IF Len(batch) = 0 THEN <<>>
  ELSE (IF batch[1] \in chosen
        THEN << [ idKey |-> "itemId", id |-> batch[1], stats |-> statsOf[batch[1]] ] >>
        ELSE <<>>) \o ItemsFor(Tail(batch), chosen, statsOf)

V1Responses(batch, date_str) ==
  { [ status |-> 500, items |-> <<>> ] }
  \cup { [ status |-> 200, items |-> ItemsFor(batch, DOMAIN statsOf, statsOf) ] :
           statsOf \in UNION { [ S -> StatsPool(date_str) ] : S \in SUBSET Range(batch) } }

\* ------------------------------------------------------ listing directory
\* one page of the enumeration endpoint: status of the account-scoped path,
\* alt the status of the secondary path (asked only after a 404)
ListingItem(i, t, vas) == [ id |-> i, title |-> t, vas |-> vas ]

FlagsOf(vas) == RaiseFlags(ZeroFlags, vas)

RECURSIVE TakePage(_, _)
TakePage(acc, items) ==
  IF Len(items) = 0 THEN acc
  ELSE LET x == items[1]
       IN IF x.id = 0 THEN TakePage(acc, Tail(items))
          ELSE TakePage(
                 [ ids       |-> Append(acc.ids, x.id),
                   titles    |-> IF x.title # "" THEN Put(acc.titles, x.id, x.title)
                                 ELSE acc.titles,
                   vas_flags |-> Put(acc.vas_flags, x.id, FlagsOf(x.vas)) ],
                 Tail(items))

\* a listing result returned as collected
AsCollected(ids) == ids

\* ids = sorted(set(ids))   (line 161)
SortedUnique(ids) == SetToSortedSeq(Range(ids))

EmptyListPage == [ status |-> 200, alt |-> 200, items |-> <<>> ]

ListPageOf(script, k) == IF k <= Len(script) THEN script[k] ELSE EmptyListPage

EffectiveStatus(r) == IF r.status = 404 THEN r.alt ELSE r.status

\* a listing loop without its page ceiling
PastCeilingNever(page) == FALSE

\* "if page > 200: break"   (line 157)
PastCeiling(page) == page > PageCeiling

RECURSIVE ListLoop(_, _, _, _, _, _)
ListLoop(script, per_page, page, acc, pages, errors) ==
  LET r     == ListPageOf(script, page)
      asked == Append(pages, page)
      errs  == errors
               \cup (IF r.status >= 400
                     THEN { [ op |-> "items", date |-> 0, n |-> page, status |-> r.status ] }
                     ELSE {})
               \cup (IF r.status = 404 /\ r.alt >= 400
                     THEN { [ op |-> "items_alt", date |-> 0, n |-> page, status |-> r.alt ] }
                     ELSE {})
      done(a) == [ raised |-> FALSE, ids |-> SortedUnique(a.ids),
                   titles |-> a.titles, vas_flags |-> a.vas_flags, pages |-> asked,
                   errors |-> errs ]
  IN IF EffectiveStatus(r) >= 400
     THEN [ raised |-> TRUE, ids |-> <<>>, titles |-> EmptyMap, vas_flags |-> EmptyMap,
            pages |-> asked, errors |-> errs ]
     ELSE IF Len(r.items) = 0 THEN done(acc)
     ELSE LET acc2 == TakePage(acc, r.items)
          IN IF Len(r.items) < per_page THEN done(acc2)
             ELSE IF PastCeiling(page + 1) THEN done(acc2)
             ELSE ListLoop(script, per_page, page + 1, acc2, asked, errs)

list_items_with_titles(script, per_page) ==
  ListLoop(script, per_page, 1,
           [ ids |-> <<>>, titles |-> EmptyMap, vas_flags |-> EmptyMap ], <<>>, {})

\* the ITEM_IDS_CSV branch of main: sorted(set(...)), empty titles, zero flags
ItemsFromCsv(csv) ==
  LET ids == SetToSortedSeq(Range(csv))
  IN [ raised |-> FALSE, ids |-> ids,
       titles |-> [ i \in Range(ids) |-> "" ],
       vas_flags |-> [ i \in Range(ids) |-> ZeroFlags ], pages |-> <<>>, errors |-> {} ]

\* ------------------------------------------------------------------ state
VARIABLES
  pc,          \* position of main / process_one_day
  wsExists,    \* the 'data' worksheet exists
  ws,          \* the worksheet's rows
  item_ids, titles_map, vas_flags,   \* main's listing results
  start_date, end_date, current,     \* main's date loop
  prof,        \* process_one_day: prof (none = TRUE stands for None)
  todo,        \* process_one_day: listings still to be turned into rows
  rows_out,    \* process_one_day: rows built so far
  cache_info,  \* process_one_day: its cache of detail answers
  active_map,  \* process_one_day: fallback aggregation
  batch_i,     \* process_one_day: offset of the next stats_v1 batch
  calls,       \* history: the requests of the run, in order
  primaryFailed, \* history: dates whose primary fetch raised
  httpErrors,  \* history: every answer with a status >= 400 the run received
  processed,   \* history: dates whose process_one_day returned, in order
  batches,     \* history: the stats_v1 batches of the current process_one_day
  upstream,    \* answers already given by an upstream that does not change
  runs,        \* history: process_one_day calls that returned
  wsBefore,    \* history: the worksheet when the last of them began
  lastRows,    \* history: rows_out of the last of them
  wsEntry,     \* history: the worksheet when the current process_one_day began
  token        \* main's token ("" until get_token has returned one)

vars == << pc, wsExists, ws, item_ids, titles_map, vas_flags, start_date, end_date,
           current, prof, todo, rows_out, cache_info, active_map, batch_i, calls,
           primaryFailed, httpErrors, processed, batches, upstream, runs, wsBefore,
           lastRows, wsEntry, token >>

mainVars == << item_ids, titles_map, start_date, end_date, token >>
dayLocals == << prof, todo, rows_out, cache_info, active_map, batch_i >>
history == << runs, wsBefore, lastRows, wsEntry >>

NoProf == [ none |-> TRUE, recs |-> <<>> ]

NoUpstream ==
  [ prof |-> {}, v1 |-> [ i \in 0..MaxItem |-> {} ], detail |-> [ i \in Items |-> {} ],
    vas_flags |-> EmptyMap, listing |-> {} ]

Call(op, d, n) == [ op |-> op, date |-> d, n |-> n ]

\* an answer of an unchanging upstream is the one given before, if any
Pick(memo, pool) == IF memo = {} THEN pool ELSE memo

ResetLocals ==
  /\ prof' = NoProf
  /\ todo' = <<>>
  /\ rows_out' = <<>>
  /\ cache_info' = EmptyMap
  /\ active_map' = EmptyMap
  /\ batch_i' = 0

\* ------------------------------------------------------- process_one_day
\* scripts of the primary endpoint: an error, or one page of records
ProfScripts(pool) ==
  { << [ status |-> s, items |-> <<>> ] >> : s \in {404, 500} }
  \cup { << [ status |-> 200, items |-> recs ] >> : recs \in SeqsUpTo(pool, MaxRecs) }

\* "if prof:" (line 403) and "if not prof:" (line 473)
PrimaryBranch(p) == ~p.none /\ Len(p.recs) > 0

FallbackBranch(p) == p.none \/ Len(p.recs) = 0

\* a process_one_day whose fallback branch does not test prof
AfterPrimaryAlways(p, ids) == IF Len(ids) > 0 THEN "v1" ELSE "write"

\* where process_one_day goes once the primary branch is over or skipped
AfterPrimary(p, ids) ==
  IF FallbackBranch(p) /\ Len(ids) > 0 THEN "v1" ELSE "write"

HttpError(op, d, n, status) == [ op |-> op, date |-> d, n |-> n, status |-> status ]

\* r.raise_for_status()
Raises(status) == status >= 400

\* lines 390-394, against a primary endpoint that follows one of the scripts
FetchProfileFrom(scripts, fixed) ==
  /\ pc = "day"
  /\ \E script \in Pick(upstream.prof, scripts) :
       LET f == fetch_profile_stats_one_day(script, Limit)
       IN /\ calls' = calls \o [ k \in 1..Len(f.requests) |->
                                   Call("profile", current, f.requests[k]) ]
          /\ primaryFailed' = IF f.raised THEN primaryFailed \cup {current}
                              ELSE primaryFailed
          /\ prof' = IF f.raised THEN NoProf ELSE [ none |-> FALSE, recs |-> f.out ]
          /\ httpErrors' = IF f.raised
                           THEN httpErrors \cup { HttpError("profile", current, 0,
                                                            PageOf(script, Len(f.requests)).status) }
                           ELSE httpErrors
          /\ pc' = IF PrimaryBranch(prof') THEN "scan" ELSE AfterPrimary(prof', item_ids)
          /\ upstream' = IF fixed THEN [ upstream EXCEPT !.prof = {script} ] ELSE upstream
          /\ batches' = <<>>
  /\ wsEntry' = ws
  /\ UNCHANGED << wsExists, ws, mainVars, vas_flags, current, todo, rows_out, cache_info,
                  active_map, batch_i, processed, runs, wsBefore, lastRows >>

\* lines 390-394, against a primary endpoint that answers with one page
FetchProfile(pool, fixed) == FetchProfileFrom(ProfScripts(pool), fixed)

\* lines 403-418: the loop that fills active_ids_today and agg
ScanProfile ==
  /\ pc = "scan"
  /\ IF PrimaryRaises(prof.recs)
     THEN /\ pc' = "failed"
          /\ todo' = todo
     ELSE LET active == PrimaryActive(prof.recs, DateStr(current))
          IN /\ todo' = SetToSortedSeq(active)
             /\ pc' = IF active = {} THEN AfterPrimary(prof, item_ids) ELSE "rows"
  /\ UNCHANGED << wsExists, ws, mainVars, vas_flags, current, prof, rows_out, cache_info,
                  active_map, batch_i, calls, primaryFailed, httpErrors, processed,
                  batches, upstream, history >>

TitleFromList(iid) == IF iid \in DOMAIN titles_map THEN titles_map[iid] ELSE ""

\* a flag lookup that hands out a copy of the listing's flags
FlagsKeptApart(map, iid, flags) == map

\* "flags = vas_flags_from_list.get(iid, {...})" hands out the map's own
\* dictionary when the listing is in the map, so "flags[vid] = 1" writes
\* into the map   (lines 433, 445-448)
FlagsInPlace(map, iid, flags) ==
  IF iid \in DOMAIN map THEN [ map EXCEPT ![iid] = flags ] ELSE map

\* lines 420-468: one iteration of "for iid in sorted(active_ids_today)"
RowPrimary(fixed) ==
  /\ pc = "rows"
  /\ Len(todo) > 0
  /\ LET iid    == Head(todo)
         lookup == iid \notin DOMAIN cache_info
     IN \E resp \in Pick(upstream.detail[iid], DetailResponses) :
          LET got    == get_item_info(resp)
              cache2 == IF lookup THEN Put(cache_info, iid, got.info) ELSE cache_info
              title  == IF TitleFromList(iid) # "" THEN TitleFromList(iid)
                        ELSE cache2[iid].title
              flags  == IF iid \in DOMAIN vas_flags THEN vas_flags[iid] ELSE ZeroFlags
              vas_list == cache2[iid].vas
              flags2 == RaiseFlags(flags, vas_list)
              row    == PrimaryRow(DateStr(current), iid, title, prof.recs, vas_list, flags2)
          IN /\ calls' = IF lookup THEN Append(calls, Call("detail", current, iid)) ELSE calls
             /\ upstream' = IF fixed /\ lookup
                            THEN [ upstream EXCEPT !.detail[iid] = {resp} ] ELSE upstream
             /\ httpErrors' = IF lookup /\ Raises(resp.status)
                              THEN httpErrors \cup { HttpError("detail", current, iid, resp.status) }
                              ELSE httpErrors
             /\ IF lookup /\ got.raised
                THEN /\ pc' = "failed"
                     /\ UNCHANGED << todo, rows_out, cache_info, vas_flags >>
                ELSE /\ cache_info' = cache2
                     /\ vas_flags' = FlagsInPlace(vas_flags, iid, flags2)
                     /\ rows_out' = Append(rows_out, row)
                     /\ todo' = Tail(todo)
                     /\ pc' = IF Len(todo) = 1 THEN AfterPrimary(prof, item_ids) ELSE "rows"
  /\ UNCHANGED << wsExists, ws, mainVars, current, prof, active_map, batch_i,
                  primaryFailed, processed, batches, history >>

\* a stats_v1 that drops the status check
V1RaisesNever(resp) == FALSE

\* stats_v1: r.raise_for_status() (line 262)
V1Raises(resp) == Raises(resp.status)

\* lines 476-490: one iteration of the batch loop of the fallback branch
V1Batch(fixed) ==
  /\ pc = "v1"
  /\ batch_i < Len(item_ids)
  /\ LET b == BatchAt(item_ids, batch_i)
     IN \E resp \in Pick(upstream.v1[batch_i], V1Responses(b, DateStr(current))) :
          /\ calls' = Append(calls, Call("v1", current, Len(b)))
          /\ batches' = Append(batches, b)
          /\ upstream' = IF fixed THEN [ upstream EXCEPT !.v1[batch_i] = {resp} ]
                         ELSE upstream
          /\ httpErrors' = IF Raises(resp.status)
                           THEN httpErrors \cup { HttpError("v1", current, batch_i, resp.status) }
                           ELSE httpErrors
          /\ IF V1Raises(resp)
             THEN /\ pc' = "failed"
                  /\ UNCHANGED << active_map, batch_i, todo >>
             ELSE LET map2 == AddItems(active_map, resp.items, DateStr(current))
                      last == batch_i + BatchSize >= Len(item_ids)
                  IN /\ active_map' = map2
                     /\ batch_i' = batch_i + BatchSize
                     /\ todo' = IF last THEN SetToSortedSeq(DOMAIN map2) ELSE todo
                     /\ pc' = IF ~last THEN "v1"
                              ELSE IF DOMAIN map2 = {} THEN "write" ELSE "v1rows"
  /\ UNCHANGED << wsExists, ws, mainVars, vas_flags, current, prof, rows_out, cache_info,
                  primaryFailed, processed, history >>

\* lines 494-529: one iteration of "for iid, vals in sorted(active_map.items())"
RowFallback(fixed) ==
  /\ pc = "v1rows"
  /\ Len(todo) > 0
  /\ LET iid      == Head(todo)
         forTitle == TitleFromList(iid) = ""
     IN \E r1 \in Pick(upstream.detail[iid], DetailResponses) :
        \E r2 \in (IF fixed THEN {r1} ELSE DetailResponses) :
          LET got1  == get_item_info(r1)
              got2  == get_item_info(r2)
              title == IF forTitle THEN got1.info.title ELSE TitleFromList(iid)
              vas_list == got2.info.vas
              flags == RaiseFlags(ZeroFlags, vas_list)
              row   == FallbackRow(DateStr(current), iid, title, active_map[iid],
                                   vas_list, flags)
              failed1 == forTitle /\ got1.raised
          IN /\ calls' = calls
                         \o (IF forTitle THEN << Call("detail", current, iid) >> ELSE <<>>)
                         \o (IF failed1 THEN <<>> ELSE << Call("detail", current, iid) >>)
             /\ upstream' = IF fixed THEN [ upstream EXCEPT !.detail[iid] = {r1} ]
                            ELSE upstream
             /\ httpErrors' = httpErrors
                  \cup (IF forTitle /\ Raises(r1.status)
                        THEN { HttpError("detail", current, iid, r1.status) } ELSE {})
                  \cup (IF ~failed1 /\ Raises(r2.status)
                        THEN { HttpError("detail", current, iid, r2.status) } ELSE {})
             /\ IF failed1 \/ got2.raised
                THEN /\ pc' = "failed"
                     /\ UNCHANGED << todo, rows_out >>
                ELSE /\ rows_out' = Append(rows_out, row)
                     /\ todo' = Tail(todo)
                     /\ pc' = IF Len(todo) = 1 THEN "write" ELSE "v1rows"
  /\ UNCHANGED << wsExists, ws, mainVars, vas_flags, current, prof, cache_info, active_map,
                  batch_i, primaryFailed, processed, batches, history >>

\* a date loop that advances by two days
NextDateSkipping(d) == d + 2

\* current += dt.timedelta(days=1)   (line 614)
NextDate(d) == d + 1

\* lines 531-564, then the return to main's loop (lines 612-614)
WriteAndReturn ==
  /\ pc = "write"
  /\ ws' = WriteDay(ws, rows_out, DateStr(current))
  /\ calls' = IF Len(rows_out) > 0 THEN Append(calls, Call("write", current, Len(rows_out)))
              ELSE calls
  /\ processed' = Append(processed, current)
  /\ runs' = runs + 1
  /\ wsBefore' = ws
  /\ lastRows' = rows_out
  /\ current' = NextDate(current)
  /\ pc' = IF NextDate(current) <= end_date THEN "day" ELSE "done"
  /\ ResetLocals
  /\ UNCHANGED << wsExists, mainVars, vas_flags, primaryFailed, httpErrors, batches,
                  upstream, wsEntry >>

\* ------------------------------------------------------------------- main
\* a row as an earlier run wrote it, for a sheet of the given width
OldRow(d, width) ==
  NormalizeRow(PrimaryRow(DateStr(d), 1, "stale title", <<>>, <<>>, ZeroFlags), width)

\* sheets a run can find: any header an earlier version left behind (a prefix
\* of DATA_HEADERS, possibly with a column added by hand), and rows of
\* earlier runs under it
OldHeaders ==
  { DATA_HEADERS, SubSeq(DATA_HEADERS, 1, 24), DATA_HEADERS \o << "note" >> }

OldSheets ==
  { << h, [ k \in 1..Len(h) |-> HEADER_ALIASES(h[k]) ] >>
      \o [ k \in 1..Len(ds) |-> OldRow(ds[k], Len(h)) ] :
    h \in OldHeaders, ds \in SeqsUpTo(Dates, MaxOldRows) }

InitRun(sheets, found) ==
  /\ pc = "token"
  /\ wsExists \in found
  /\ ws \in (IF wsExists THEN sheets ELSE { <<>> })
  /\ item_ids = <<>>
  /\ titles_map = EmptyMap
  /\ vas_flags = EmptyMap
  /\ start_date \in Dates
  /\ end_date \in { d \in Dates : d >= start_date }
  /\ current = start_date
  /\ prof = NoProf
  /\ todo = <<>>
  /\ rows_out = <<>>
  /\ cache_info = EmptyMap
  /\ active_map = EmptyMap
  /\ batch_i = 0
  /\ calls = <<>>
  /\ primaryFailed = {}
  /\ httpErrors = {}
  /\ processed = <<>>
  /\ upstream = NoUpstream
  /\ batches = <<>>
  /\ runs = 0
  /\ wsBefore = <<>>
  /\ lastRows = <<>>
  /\ wsEntry = <<>>
  /\ token = ""

\* a get_token that only checks the status
TokenRaisesOnStatus(answer) == answer.status >= 400

\* get_token raises: r.raise_for_status(), or "if not token"   (lines 89-92)
TokenRaises(answer) == answer.status >= 400 \/ answer.access_token = ""

\* get_token: an HTTP error status, a body without access_token, or a token
GetToken ==
  /\ pc = "token"
  /\ \E answer \in { [ status |-> 200, access_token |-> "t" ],
                     [ status |-> 200, access_token |-> "" ],
                     [ status |-> 401, access_token |-> "" ] } :
       /\ calls' = Append(calls, Call("token", 0, answer.status))
       /\ httpErrors' = IF Raises(answer.status)
                        THEN httpErrors \cup { HttpError("token", 0, 0, answer.status) }
                        ELSE httpErrors
       /\ pc' = IF TokenRaises(answer) THEN "failed" ELSE "sheet"
       /\ token' = IF TokenRaises(answer) THEN token ELSE answer.access_token
  /\ UNCHANGED << wsExists, ws, item_ids, titles_map, start_date, end_date, vas_flags,
                  current, dayLocals, primaryFailed, processed, batches, upstream,
                  history >>

\* connect_sheet: create the worksheet with DATA_HEADERS, or complete the
\* header row of the one found; then the alias row
ConnectSheet ==
  /\ pc = "sheet"
  /\ ws' = IF wsExists THEN ConnectExisting(ws) ELSE ConnectCreated
  /\ wsExists' = TRUE
  /\ calls' = Append(calls, Call("sheet", 0, 0))
  /\ pc' = "items"
  /\ UNCHANGED << mainVars, vas_flags, current, dayLocals, primaryFailed, httpErrors,
                  processed, batches, upstream, history >>

\* lines 588-608: the listing, then "if not item_ids: return"
TakeItems(res) ==
  /\ item_ids' = res.ids
  /\ titles_map' = res.titles
  /\ vas_flags' = res.vas_flags
  /\ pc' = IF res.raised THEN "failed"
           ELSE IF Len(res.ids) = 0 THEN "done" ELSE "day"

ItemsCsv(csvs) ==
  /\ pc = "items"
  /\ \E csv \in csvs : TakeItems(ItemsFromCsv(csv))
  /\ UNCHANGED << wsExists, ws, start_date, end_date, token, current, dayLocals, calls,
                  primaryFailed, httpErrors, processed, batches, upstream, history >>

ItemsListing(scripts, fixed) ==
  /\ pc = "items"
  /\ \E script \in scripts :
       LET res == list_items_with_titles(script, PerPage)
       IN /\ TakeItems(res)
          /\ upstream' = IF fixed THEN [ upstream EXCEPT !.listing = {script} ] ELSE upstream
          /\ calls' = calls \o [ k \in 1..Len(res.pages) |-> Call("items", 0, res.pages[k]) ]
          /\ httpErrors' = httpErrors \cup res.errors
  /\ UNCHANGED << wsExists, ws, start_date, end_date, token, current, dayLocals,
                  primaryFailed, processed, batches, history >>

\* what the run's listing may contain: nothing, listing 1 with a title
\* and a promotion, or listing 2 without either; on either path, or refused
RunListingScripts ==
  { << [ status |-> st.s, alt |-> st.a, items |-> items ] >> :
      st \in { [ s |-> 200, a |-> 200 ], [ s |-> 404, a |-> 200 ],
               [ s |-> 404, a |-> 404 ], [ s |-> 500, a |-> 200 ] },
      items \in { <<>>,
                  << ListingItem(1, "listing title", << VasEntry("xl") >>) >>,
                  << ListingItem(2, "", <<>>) >> } }

RunCsvs == { << 1, 1 >> }

\* records the primary endpoint may return when asked for day d
RunRecs(d) ==
  { r \in CanonicalRecs :
      r.id = 1 /\ r.m["views"] = 1 /\ r.date \in { DateStr(d), OtherDateStr } }

Init == InitRun({ << SubSeq(DATA_HEADERS, 1, 24) >> }, BOOLEAN)

Next ==
  \/ GetToken
  \/ ConnectSheet
  \/ ItemsCsv(RunCsvs)
  \/ ItemsListing(RunListingScripts, FALSE)
  \/ FetchProfile(RunRecs(current), FALSE)
  \/ ScanProfile
  \/ RowPrimary(FALSE)
  \/ V1Batch(FALSE)
  \/ RowFallback(FALSE)
  \/ WriteAndReturn

Spec == Init /\ [][Next]_vars

\* ------------------------------------------- one date, reconciled again
\* A run's process_one_day for one date, from any state main can hand it,
\* against an upstream whose answers do not change; Rerun is the next run
\* (or call) for the same date.
MaxRuns == 2

DaySheets ==
  { << h, [ k \in 1..Len(h) |-> HEADER_ALIASES(h[k]) ] >>
      \o [ k \in 1..Len(ds) |-> OldRow(ds[k], Len(h)) ] :
    h \in { DATA_HEADERS, DATA_HEADERS \o << "note" >> },
    ds \in SeqsUpTo(Dates, MaxOldRows) }

\* listing results: the listing's own titles and flags, or those of ITEM_IDS_CSV
ListedTitles(ids) == [ i \in Range(ids) \cap {1} |-> "listing title" ]

ListedFlags(ids) ==
  [ i \in Range(ids) |-> IF i = 1 THEN RaiseFlags(ZeroFlags, << VasEntry("xl") >>)
                         ELSE ZeroFlags ]

InitDayWith(sheets, lists) ==
  /\ pc = "day"
  /\ wsExists = TRUE
  /\ ws \in sheets
  /\ item_ids \in lists
  /\ titles_map = ListedTitles(item_ids)
  /\ vas_flags = ListedFlags(item_ids)
  /\ start_date = 1
  /\ end_date = 1
  /\ current = 1
  /\ prof = NoProf
  /\ todo = <<>>
  /\ rows_out = <<>>
  /\ cache_info = EmptyMap
  /\ active_map = EmptyMap
  /\ batch_i = 0
  /\ calls = <<>>
  /\ primaryFailed = {}
  /\ httpErrors = {}
  /\ processed = <<>>
  /\ batches = <<>>
  /\ upstream = [ NoUpstream EXCEPT !.vas_flags = vas_flags ]
  /\ runs = 0
  /\ wsBefore = <<>>
  /\ lastRows = <<>>
  /\ wsEntry = <<>>
  /\ token = "t"

\* every sheet with the two-listing list, and every list with the bare sheet
InitDay ==
  \/ InitDayWith(DaySheets, { << 1, 2 >> })
  \/ InitDayWith({ ConnectCreated }, { SetToSortedSeq(1..n) : n \in 1..MaxItem })

\* the same date again: main's listing results are those of the unchanged
\* listing, or the dictionaries the previous call left behind
Rerun ==
  /\ pc = "done"
  /\ runs < MaxRuns
  /\ pc' = "day"
  /\ current' = start_date
  /\ vas_flags' \in { vas_flags, upstream.vas_flags }
  /\ calls' = <<>>
  /\ primaryFailed' = {}
  /\ httpErrors' = {}
  /\ processed' = <<>>
  /\ UNCHANGED << wsExists, ws, mainVars, dayLocals, batches, upstream, history >>

DayRecs ==
  { r \in CanonicalRecs : r.m["views"] = 1 /\ r.date \in { DateStr(1), OtherDateStr } }

NextDay ==
  \/ FetchProfile(DayRecs, TRUE)
  \/ ScanProfile
  \/ RowPrimary(TRUE)
  \/ V1Batch(TRUE)
  \/ RowFallback(TRUE)
  \/ WriteAndReturn
  \/ Rerun

SpecDay == InitDay /\ [][NextDay]_vars

\* ------------------------------------------ one date, every record shape
InitRecs == InitDayWith({ ConnectCreated }, { << 1, 2 >> })

NextRecs ==
  \/ FetchProfile(ShapedRecs, TRUE)
  \/ ScanProfile
  \/ RowPrimary(TRUE)
  \/ V1Batch(TRUE)
  \/ RowFallback(TRUE)
  \/ WriteAndReturn

SpecRecs == InitRecs /\ [][NextRecs]_vars

\* ------------------------------------------------- the listing directory
\* page k of a listing, n items long: new identifiers in descending order,
\* the same titled and promoted listing n times, or new identifiers behind
\* an item without one
FreshPage(k, n) == [ j \in 1..n |-> ListingItem(k * PerPage - j + 1, "", <<>>) ]

RepeatPage(n) == [ j \in 1..n |-> ListingItem(1, "listing title", << VasEntry("xl") >>) ]

HoledPage(k, n) ==
  [ j \in 1..n |-> IF j = 1 THEN ListingItem(0, "no id", <<>>)
                   ELSE ListingItem(k * PerPage - j + 1, "", <<>>) ]

PagesAt(k, n) == { FreshPage(k, n), RepeatPage(n), HoledPage(k, n) }

ListStatuses ==
  { [ s |-> 200, a |-> 200 ], [ s |-> 404, a |-> 200 ],
    [ s |-> 404, a |-> 404 ], [ s |-> 500, a |-> 200 ] }

\* scripts of len pages: full pages answered by the account-scoped path,
\* then a last page of any length, on either path or refused
RECURSIVE FullPrefixes(_)
FullPrefixes(len) ==
  IF len = 0 THEN { <<>> }
  ELSE { Append(sc, [ status |-> 200, alt |-> 200, items |-> pg ]) :
           sc \in FullPrefixes(len - 1), pg \in PagesAt(len, PerPage) }

ListScripts ==
  UNION { { Append(sc, [ status |-> st.s, alt |-> st.a, items |-> pg ]) :
              sc \in FullPrefixes(len - 1),
              st \in ListStatuses,
              pg \in UNION { PagesAt(len, n) : n \in 0..PerPage } } :
          len \in 1..PageCeiling }

InitList ==
  /\ pc = "items"
  /\ wsExists = TRUE
  /\ ws = ConnectCreated
  /\ item_ids = <<>>
  /\ titles_map = EmptyMap
  /\ vas_flags = EmptyMap
  /\ start_date = 1
  /\ end_date = 1
  /\ current = 1
  /\ prof = NoProf
  /\ todo = <<>>
  /\ rows_out = <<>>
  /\ cache_info = EmptyMap
  /\ active_map = EmptyMap
  /\ batch_i = 0
  /\ calls = <<>>
  /\ primaryFailed = {}
  /\ httpErrors = {}
  /\ processed = <<>>
  /\ batches = <<>>
  /\ upstream = NoUpstream
  /\ runs = 0
  /\ wsBefore = <<>>
  /\ lastRows = <<>>
  /\ wsEntry = <<>>
  /\ token = "t"

\* a server that answers every request, beyond the ceiling too, with a full
\* page: of new identifiers, or of the same listing over and over
EndlessScripts ==
  { [ k \in 1..(PageCeiling + 2) |->
        [ status |-> 200, alt |-> 200, items |-> FreshPage(k, PerPage) ] ],
    [ k \in 1..(PageCeiling + 2) |->
        [ status |-> 200, alt |-> 200, items |-> RepeatPage(PerPage) ] ] }

NextList == ItemsListing(ListScripts \cup EndlessScripts, TRUE)

SpecList == InitList /\ [][NextList]_vars

\* ------------------------------------------------- any header row found
\* connect_sheet and process_one_day on a worksheet whose header row is
\* whatever earlier versions or hands left: nothing, the required columns, a
\* leading part of them, either with a column added by hand, or foreign
\* columns only; under it no row or one row of date 1
HeaderRows ==
  { <<>>, DATA_HEADERS, SubSeq(DATA_HEADERS, 1, 24), DATA_HEADERS \o << "note" >>,
    SubSeq(DATA_HEADERS, 1, 24) \o << "note" >>, << "note", "date" >> }

HeaderSheets ==
  { IF Len(h) = 0 THEN <<>>
    ELSE << h, [ k \in 1..Len(h) |-> HEADER_ALIASES(h[k]) ] >>
         \o [ k \in 1..Len(ds) |-> OldRow(ds[k], Len(h)) ] :
    h \in HeaderRows, ds \in SeqsUpTo({1}, 1) }

InitHeaders ==
  \/ InitDayWith(HeaderSheets, { << 1 >> })
  \/ /\ InitRun(HeaderSheets, BOOLEAN)
     /\ start_date = end_date

NextHeaders ==
  \/ GetToken
  \/ ConnectSheet
  \/ ItemsCsv(RunCsvs)
  \/ FetchProfile(RunRecs(current), TRUE)
  \/ ScanProfile
  \/ RowPrimary(TRUE)
  \/ V1Batch(TRUE)
  \/ RowFallback(TRUE)
  \/ WriteAndReturn

SpecHeaders == InitHeaders /\ [][NextHeaders]_vars

\* ------------------------------------------ the primary endpoint, paged
\* fetch_profile_stats_one_day against a primary endpoint that answers in
\* pages: full pages, then a last page of any length or an error
MaxPages == 3

\* a record with identifier and date, one without identifier, one without date
WholeRec(i) ==
  [ idKey |-> "itemId", dateKey |-> "date", id |-> i, date |-> DateStr(1),
    m |-> [ k \in {"views"} |-> 1 ] ]

NoIdRec ==
  [ idKey |-> "none", dateKey |-> "date", id |-> 0, date |-> DateStr(1),
    m |-> [ k \in {"views"} |-> 1 ] ]

NoDateRec ==
  [ idKey |-> "itemId", dateKey |-> "none", id |-> 2, date |-> "",
    m |-> [ k \in {"views"} |-> 1 ] ]

\* pages of n records: all whole, or with a record that lacks its
\* identifier in front, or one that lacks its date at the end
RecPagesOf(n) ==
  { [ j \in 1..n |-> WholeRec(1) ],
    [ j \in 1..n |-> IF j = 1 THEN NoIdRec ELSE WholeRec(1) ],
    [ j \in 1..n |-> IF j = n THEN NoDateRec ELSE WholeRec(2) ] }

RECURSIVE FullRecPrefixes(_)
FullRecPrefixes(len) ==
  IF len = 0 THEN { <<>> }
  ELSE { Append(sc, [ status |-> 200, items |-> pg ]) :
           sc \in FullRecPrefixes(len - 1), pg \in RecPagesOf(Limit) }

PagedScripts ==
  UNION { { Append(sc, last) :
              sc \in FullRecPrefixes(len - 1),
              last \in { [ status |-> s, items |-> <<>> ] : s \in {404, 500} }
                       \cup { [ status |-> 200, items |-> pg ] :
                                pg \in UNION { RecPagesOf(n) : n \in 0..Limit } } } :
          len \in 1..MaxPages }

InitFetch == InitDayWith({ ConnectCreated }, { << 1 >>, << 1, 2 >> })

NextFetch == FetchProfileFrom(PagedScripts, TRUE)

SpecFetch == InitFetch /\ [][NextFetch]_vars

\* ---------------------------------------------------------------- claims
CallsOf(op) == { i \in 1..Len(calls) : calls[i].op = op }

\* the cells of a row under the primary-tier metric columns
PrimaryCells(row) == { row[k] : k \in (4..15) \cup (18..24) }

\* C5: when the primary request of a date fails with an HTTP error the
\* fallback tier is called for that date, the rows built for it have every
\* primary metric column at zero, and on every date a stats_v1 call comes
\* only after a primary request for that same date.
C5_FallbackOnPrimaryError ==
  /\ \A d \in primaryFailed :
       \/ pc = "v1" /\ current = d /\ batch_i = 0
       \/ \E i \in CallsOf("v1") : calls[i].date = d
  /\ current \in primaryFailed =>
       \A k \in 1..Len(rows_out) : PrimaryCells(rows_out[k]) = {0}
  /\ \A i \in CallsOf("v1") :
       \E j \in CallsOf("profile") : j < i /\ calls[j].date = calls[i].date

\* a run whose first date fell back and wrote rows with fallback values, and
\* whose second date asked the primary tier again
C5_Witness ==
  /\ 1 \in primaryFailed
  /\ \E i \in CallsOf("write") : calls[i].date = 1
  /\ \E k \in 3..Len(ws) : ws[k][1] = DateStr(1) /\ ws[k][16] > 0
  /\ \E j \in CallsOf("profile") : calls[j].date = 2

\* C6: the fallback tier is called for a date only if the primary tier
\* raised for that date.
C6_FallbackOnlyAfterError ==
  \A i \in CallsOf("v1") : calls[i].date \in primaryFailed

\* C9: within one run the detail endpoint is asked at most once per listing.
C9_DetailAtMostOnce ==
  \A iid \in Items : Cardinality({ i \in CallsOf("detail") : calls[i].n = iid }) <= 1

\* C10 as stated: every HTTP error other than a 404 of a detail lookup ends
\* the run.
C10_OnlyDetail404Recovered ==
  \A e \in httpErrors : (e.op = "detail" /\ e.status = 404) \/ pc = "failed"

\* the HTTP errors the run lives through
Recovered(e) ==
  \/ e.op = "detail" /\ e.status = 404
  \/ e.op = "profile"
  \/ /\ e.op = "items" /\ e.status = 404
     /\ ~\E a \in httpErrors : a.op = "items_alt" /\ a.n = e.n

\* C10: an HTTP error ends the run unless it is a 404 of a detail lookup, an
\* error of the primary metrics request (the date falls back), or a 404 of
\* the account-scoped listing path that the secondary path answers; a run
\* that ended this way does nothing more.
C10_ErrorPropagation ==
  /\ \A e \in httpErrors : Recovered(e) \/ pc = "failed"
  /\ pc = "failed" => ~ENABLED Next

\* a run that completed its first date and died of a stats_v1 error on the
\* second
C10_Witness ==
  /\ pc = "failed"
  /\ processed = << 1 >>
  /\ \E e \in httpErrors : e.op = "v1" /\ e.date = 2

\* process_one_day has just returned
Returned == Len(processed) > 0 /\ pc \in {"day", "done"}

LastDate == DateStr(processed[Len(processed)])

\* the data rows of the sheet whose date column holds date_str, in order
RECURSIVE DatedRows(_, _)
DatedRows(rows, date_str) ==
  IF Len(rows) = 0 THEN <<>>
  ELSE (IF Len(rows[1]) >= 1 /\ rows[1][1] = date_str THEN << rows[1] >> ELSE <<>>)
       \o DatedRows(Tail(rows), date_str)

\* the rows as built, without the padding of the sheet
AsBuilt(rows) == [ k \in 1..Len(rows) |-> SubSeq(rows[k], 1, Len(DATA_HEADERS)) ]

IdCells(rows) == [ k \in 1..Len(rows) |-> rows[k][2] ]

\* C1 as stated: a second reconciliation of the same date against the same
\* upstream leaves the sheet as the first left it, and after each
\* reconciliation the sheet holds exactly one row of the date per active
\* listing.
C1_OneRowPerActive ==
  Returned =>
    /\ runs >= 2 => ws = wsBefore
    /\ IdCells(DatedRows(ws, LastDate)) = IdCells(lastRows)

\* C1: a second reconciliation of the same date against the same upstream
\* leaves the sheet as the first left it; after a reconciliation that found
\* active listings the rows of the date are exactly the rows built, one per
\* active listing; one that found none leaves the sheet, stale rows of the
\* date included, as it was.
C1_Idempotent ==
  Returned =>
    /\ runs >= 2 => ws = wsBefore
    /\ Len(lastRows) > 0 =>
         /\ AsBuilt(DatedRows(ws, LastDate)) = lastRows
         /\ Cardinality(Range(IdCells(lastRows))) = Len(lastRows)
    /\ Len(lastRows) = 0 => ws = wsBefore

\* the second reconciliation has returned, with two rows built, and the
\* sheet holds two rows of the date
C1_Witness ==
  /\ Returned
  /\ runs = 2
  /\ Len(lastRows) = 2
  /\ Len(DatedRows(ws, LastDate)) = 2

\* C2: after a reconciliation that built k > 0 rows the sheet holds exactly
\* k rows of the date, they are the rows built, and they are the last k rows
\* of the sheet (no earlier row of the date is left).
C2_Replace ==
  Returned /\ Len(lastRows) > 0 =>
    LET k == Len(lastRows)
        n == Len(ws)
    IN /\ findall(ws, LastDate) = (n - k + 1)..n
       /\ AsBuilt(SubSeq(ws, n - k + 1, n)) = lastRows
       /\ n - k = Len(wsBefore) - Cardinality(findall(wsBefore, LastDate))

\* two rows of the date were in the sheet and one row was built
C2_Witness ==
  /\ Returned
  /\ runs = 1
  /\ Cardinality(findall(wsBefore, LastDate)) = 2
  /\ Len(lastRows) = 1
  /\ Cardinality(findall(ws, LastDate)) = 1

\* C3: a reconciliation that built no row leaves the sheet unchanged and
\* logs no write.
C3_EmptyDay ==
  Returned /\ Len(lastRows) = 0 =>
    /\ ws = wsBefore
    /\ ~\E i \in CallsOf("write") : DateStr(calls[i].date) = LastDate

\* no row was built and the rows the sheet held for the date are still there
C3_Witness ==
  /\ Returned
  /\ Len(lastRows) = 0
  /\ Cardinality(findall(ws, LastDate)) = 2

\* the listings the unchanged upstream reported for the date
ExpectedPrimary(date_str) ==
  { r.id : r \in { x \in UNION { Range(pg.items) : pg \in UNION { Range(sc) : sc \in upstream.prof } } :
                     x.date = date_str } }

ExpectedFallback(date_str) ==
  { it.id : it \in { x \in UNION { Range(resp.items) :
                                     resp \in UNION { upstream.v1[i] : i \in DOMAIN upstream.v1 } } :
                       \E k \in 1..Len(x.stats) : x.stats[k].date = date_str } }

\* C4: the listings process_one_day builds rows for are exactly the listings
\* with a metric record of the date, in either tier.
C4_ActiveSetExact ==
  pc = "write" =>
    Range(IdCells(rows_out)) =
      { ToString(i) : i \in IF PrimaryBranch(prof) THEN ExpectedPrimary(DateStr(current))
                           ELSE ExpectedFallback(DateStr(current)) }

Ceil(n, b) == (n + b - 1) \div b

RECURSIVE Flatten(_)
Flatten(ss) == IF Len(ss) = 0 THEN <<>> ELSE ss[1] \o Flatten(Tail(ss))

\* C8: the stats_v1 batches of a date are consecutive slices of the listing
\* list, each of at most BatchSize identifiers and all but the last full;
\* once the fallback tier is through there are ceil(n / BatchSize) of them
\* and together they are the list.
C8_Batches ==
  /\ \A k \in 1..Len(batches) :
       /\ Len(batches[k]) \in 1..BatchSize
       /\ k < Len(batches) => Len(batches[k]) = BatchSize
  /\ Flatten(batches) = SubSeq(item_ids, 1, Len(Flatten(batches)))
  /\ pc \in {"v1rows", "write"} /\ FallbackBranch(prof) =>
       /\ Len(batches) = Ceil(Len(item_ids), BatchSize)
       /\ Flatten(batches) = item_ids

\* the fallback tier went through a list that needed a short last batch
C8_Witness ==
  /\ pc = "write"
  /\ FallbackBranch(prof)
  /\ Len(batches) = 2
  /\ Len(batches[1]) = BatchSize
  /\ Len(batches[2]) < BatchSize

\* the pages the listing asked for, in order
PagesAsked == [ k \in 1..Cardinality(CallsOf("items")) |->
                  calls[CHOOSE i \in CallsOf("items") :
                          Cardinality({ j \in CallsOf("items") : j <= i }) = k].n ]

\* C7: the listing asks for pages 1, 2, ... in order, goes on only after a
\* full page, stops right after the first page shorter than the page size
\* (or at the page ceiling), and returns the identifiers of the pages asked
\* for, each once, in ascending order.
C7_Listing ==
  \A sc \in upstream.listing :
    pc # "failed" =>
      LET K == Len(PagesAsked)
          seen == UNION { { x.id : x \in Range(ListPageOf(sc, k).items) } : k \in 1..K }
      IN /\ PagesAsked = [ k \in 1..K |-> k ]
         /\ K >= 1
         /\ \A k \in 1..(K - 1) : Len(ListPageOf(sc, k).items) = PerPage
         /\ Len(ListPageOf(sc, K).items) < PerPage \/ K = PageCeiling
         /\ Range(item_ids) = seen \ {0}
         /\ \A i \in 1..(Len(item_ids) - 1) : item_ids[i] < item_ids[i + 1]

\* full pages of new identifiers, then a short one: every identifier returned
C7_Witness ==
  /\ pc = "day"
  /\ PagesAsked = << 1, 2, 3 >>
  /\ Len(item_ids) = 2 * PerPage + 1

\* the requests process_one_day makes to compute the rows of a date
ComputeOps == {"profile", "v1", "detail"}

\* an HTTP error of a legacy-metrics request or of a detail lookup that raises
FatalForDate(e) ==
  \/ e.op = "v1"
  \/ e.op = "detail" /\ e.status # 404

\* C11: the write of a date comes after every metric request and detail
\* lookup of that date, only when every active listing has its row and none
\* of those requests failed fatally; when one did, the call ends without a
\* write and the sheet is the sheet it was handed.
C11_NoHalfWrittenDate ==
  /\ \A i \in CallsOf("write") :
       /\ \A j \in 1..Len(calls) :
            calls[j].op \in ComputeOps /\ calls[j].date = calls[i].date => j < i
       /\ ~\E e \in httpErrors : e.date = calls[i].date /\ FatalForDate(e)
  /\ pc = "write" => todo = <<>>
  /\ pc = "failed" /\ (\E j \in CallsOf("profile") : calls[j].date = current) =>
       /\ ws = wsEntry
       /\ ~\E i \in CallsOf("write") : calls[i].date = current

\* a detail lookup failed after the first of two rows was built, on a sheet
\* that held two rows of the date: they are still there
C11_Witness ==
  /\ pc = "failed"
  /\ Len(rows_out) = 1
  /\ Len(todo) = 1
  /\ \E e \in httpErrors : e.op = "detail" /\ e.status = 500
  /\ Cardinality(findall(ws, DateStr(current))) = 2

\* the dates start_date..end_date, in order
DateRange == [ k \in 1..(end_date - start_date + 1) |-> start_date + k - 1 ]

\* positions inside process_one_day
InDay == pc \in {"day", "scan", "rows", "v1", "v1rows", "write"}

\* C12 as stated: a run that ends without an error has called process_one_day
\* once for every date of the range.
C12_EveryDateOnce == pc = "done" => processed = DateRange

\* C12: the dates process_one_day has returned for are the first dates of
\* the range, each once and in ascending order; the date being processed is
\* the next one; no request or write of a date comes after one of a later
\* date; and a run over a non-empty listing list that ends without an error
\* has processed the whole range.
C12_DateOrder ==
  /\ Len(processed) <= Len(DateRange)
  /\ processed = SubSeq(DateRange, 1, Len(processed))
  /\ InDay => current = start_date + Len(processed) /\ current <= end_date
  /\ \A i, j \in 1..Len(calls) :
       i < j /\ calls[i].date # 0 /\ calls[j].date # 0 => calls[i].date <= calls[j].date
  /\ \A i \in 1..Len(calls) :
       calls[i].date # 0 => /\ calls[i].date \in Range(DateRange)
                            /\ calls[i].date <= start_date + Len(processed)
  /\ pc = "done" /\ Len(item_ids) > 0 => processed = DateRange

\* a run over two dates that wrote rows for both
C12_Witness ==
  /\ pc = "done"
  /\ processed = << 1, 2 >>
  /\ \E i, j \in CallsOf("write") : i < j /\ calls[i].date = 1 /\ calls[j].date = 2

\* the rows of the current call, or of the call that has just returned
RowsOfCall == IF Returned THEN lastRows ELSE rows_out

\* the row of a listing whose detail lookup found nothing: the listing's own
\* title if it has one, no promotion snapshot, and no flag but the listing's
BareRow(row, iid) ==
  /\ row[2] = ToString(iid)
  /\ row[3] = TitleFromList(iid)
  /\ SubSeq(row, 25, 27) = << "", "", "" >>
  /\ SubSeq(row, 28, 32) \in { FlagCells(ZeroFlags) }
       \cup { FlagCells(vas_flags[i]) : i \in {iid} \cap DOMAIN vas_flags }

\* C13: a 404 of the detail endpoint does not raise; the listing it was asked
\* for has its row among the rows of the call, with the title and flags of
\* the listing results and an empty promotion snapshot, and when the call
\* returns those rows are the rows of the date in the sheet.
C13_Detail404NotFatal ==
  /\ \A resp \in { r \in DetailResponses : r.status = 404 } :
       get_item_info(resp) = [ raised |-> FALSE, info |-> EmptyInfo ]
  /\ \A e \in httpErrors :
       e.op = "detail" /\ e.status = 404 =>
         /\ \E k \in 1..Len(RowsOfCall) : BareRow(RowsOfCall[k], e.n)
         /\ Returned => AsBuilt(DatedRows(ws, LastDate)) = lastRows

\* listing 2 has no title in the listing results and its detail lookup
\* answered 404: its row is in the sheet with an empty title
C13_Witness ==
  /\ Returned
  /\ \E e \in httpErrors : e.op = "detail" /\ e.status = 404 /\ e.n = 2
  /\ \E i \in findall(ws, LastDate) : ws[i][2] = "2" /\ ws[i][3] = "" /\ ws[i][25] = ""

\* a step that runs a header-ensure: connect_sheet, or a write of rows
HeaderStep == pc = "sheet" \/ (pc = "write" /\ Len(rows_out) > 0)

\* new is old with required columns that old lacked appended, each once
HeaderGrown(old, new) ==
  LET added == SubSeq(new, Len(old) + 1, Len(new))
  IN /\ Range(DATA_HEADERS) \subseteq Range(new)
     /\ Len(old) <= Len(new)
     /\ SubSeq(new, 1, Len(old)) = old
     /\ Range(added) = Range(DATA_HEADERS) \ Range(old)
     /\ Cardinality(Range(added)) = Len(added)

\* C14: every step that runs a header-ensure (connect_sheet, and the write of
\* a non-empty row set) leaves a header row that holds every column of
\* DATA_HEADERS, begins with the header row found, and adds to it only the
\* required columns that were missing, at the end.
C14_HeaderSchema ==
  [][ HeaderStep => HeaderGrown(row_values(ws, 1), row_values(ws', 1)) ]_vars

\* connect_sheet completed a header row behind a column added by hand
C14_Witness ==
  /\ pc = "items"
  /\ row_values(ws, 1)
       = SubSeq(DATA_HEADERS, 1, 24) \o << "note" >> \o SubSeq(DATA_HEADERS, 25, 32)

\* the write phase completed the header row of a sheet with foreign columns
C14_WitnessWrite ==
  /\ Returned
  /\ Len(lastRows) > 0
  /\ row_values(ws, 1) = << "note", "date" >> \o SubSeq(DATA_HEADERS, 2, 32)

\* row is r brought to the given width: the leading cells of r in their
\* order, then empty cells
Fitted(row, r, width) ==
  /\ Len(row) = width
  /\ \A k \in 1..width : row[k] = IF k <= Len(r) THEN r[k] ELSE ""

\* C15: the rows a write appended are as long as the header row is wide, each
\* the row built with empty cells added on the right; and normalising a row
\* built to any width, smaller ones included, keeps its leading cells in
\* order and gives exactly that width.
C15_RowWidth ==
  Returned /\ Len(lastRows) > 0 =>
    LET k     == Len(lastRows)
        n     == Len(ws)
        width == Len(row_values(ws, 1))
    IN /\ \A j \in 1..k : Fitted(ws[n - k + j], lastRows[j], width)
       /\ \A j \in 1..k : \A w \in 0..(Len(lastRows[j]) + 2) :
            Fitted(NormalizeRow(lastRows[j], w), lastRows[j], w)

\* rows of 32 cells were appended under a header row of 33 columns
C15_Witness ==
  /\ Returned
  /\ Len(lastRows) > 0
  /\ Len(row_values(ws, 1)) = Len(DATA_HEADERS) + 1
  /\ Len(ws[Len(ws)]) = Len(DATA_HEADERS) + 1
  /\ ws[Len(ws)][Len(DATA_HEADERS) + 1] = ""

\* C16: whatever the server answers, a server of endless full pages included,
\* the listing returns, having asked for at most PageCeiling pages and for no
\* page beyond the ceiling.
C16_PageCeiling ==
  /\ \A i \in CallsOf("items") : calls[i].n \in 1..PageCeiling
  /\ Cardinality(CallsOf("items")) <= PageCeiling
  /\ \A sc \in upstream.listing : pc \in {"day", "done", "failed"}

\* a server of endless full pages was asked for pages 1..PageCeiling, and the
\* listing returned
C16_Witness ==
  /\ pc = "day"
  /\ \E sc \in upstream.listing :
       /\ Len(sc) > PageCeiling
       /\ Len(sc[PageCeiling + 1].items) = PerPage
  /\ PagesAsked = [ k \in 1..PageCeiling |-> k ]
  /\ Len(item_ids) = PageCeiling * PerPage

\* the record carries a listing identifier and a date
Carries(it) == it.idKey # "none" /\ it.id # 0 /\ it.dateKey # "none" /\ it.date # ""

\* the records of pages 1..k of a script that carry identifier and date
RECURSIVE CarriedUpTo(_, _)
CarriedUpTo(sc, k) ==
  IF k = 0 THEN <<>>
  ELSE CarriedUpTo(sc, k - 1) \o SelectSeq(PageOf(sc, k).items, Carries)

\* C17: the primary fetch asks for offsets 0, Limit, 2*Limit, ... in order;
\* every page before the last request was answered without error with a full
\* page; the last request was answered with an error, which is raised to the
\* caller, or with fewer than Limit records, and then the result is the
\* records of the pages fetched that carry an identifier and a date.
C17_PrimaryPagination ==
  \A sc \in upstream.prof :
    LET K == Len(calls)
        last == PageOf(sc, K)
    IN /\ K >= 1
       /\ \A k \in 1..K : calls[k] = Call("profile", current, (k - 1) * Limit)
       /\ \A k \in 1..(K - 1) :
            PageOf(sc, k).status < 400 /\ Len(PageOf(sc, k).items) = Limit
       /\ IF last.status >= 400
          THEN prof = NoProf /\ current \in primaryFailed
          ELSE /\ Len(last.items) < Limit
               /\ prof = [ none |-> FALSE, recs |-> CarriedUpTo(sc, K) ]
               /\ current \notin primaryFailed

\* two full pages and a third of one record without a date: three requests,
\* and the records returned are the whole ones of the first two pages
C17_Witness ==
  /\ Len(calls) = 3
  /\ calls[3].n = 2 * Limit
  /\ ~prof.none
  /\ \E sc \in upstream.prof : PageOf(sc, 3).items = << NoDateRec >>
  /\ Len(prof.recs) \in 1..(2 * Limit)

\* the second page answered with an error: two requests, raised to the caller
C17_WitnessError ==
  /\ Len(calls) = 2
  /\ \E sc \in upstream.prof : PageOf(sc, 2).status = 500
  /\ current \in primaryFailed

\* the rows of a sheet without the rows below row 1 whose first cell is
\* date_str, in their order
RECURSIVE KeptFrom(_, _, _)
KeptFrom(rows, date_str, i) ==
  IF i > Len(rows) THEN <<>>
  ELSE (IF i > 1 /\ i \in findall(rows, date_str) THEN <<>> ELSE << rows[i] >>)
       \o KeptFrom(rows, date_str, i + 1)

\* the first cells of the rows the deletion loop removes, step by step
RECURSIVE DeletedCells(_, _)
DeletedCells(rows, order) ==
  IF Len(order) = 0 THEN <<>>
  ELSE IF order[1] > 1
       THEN << IF order[1] <= Len(rows) /\ Len(rows[order[1]]) >= 1
               THEN rows[order[1]][1] ELSE "" >>
            \o DeletedCells(delete_rows(rows, order[1]), Tail(order))
       ELSE DeletedCells(rows, Tail(order))

\* sheets to clear: the sheet as it is, the sheet with the date in the
\* first cell of its header row, and the sheet with its data rows repeated
\* below (rows of the date between rows of other dates)
WithDatedHeader(rows, date_str) ==
  { rows }
  \cup (IF Len(rows) >= 1 /\ Len(rows[1]) >= 1
        THEN { [ rows EXCEPT ![1] = << date_str >> \o Tail(rows[1]) ] } ELSE {})
  \cup (IF Len(rows) >= 3 THEN { rows \o SubSeq(rows, 3, Len(rows)) } ELSE {})

\* C18: clear_date deletes the matches in strictly descending row order,
\* every row it deletes has the date in its first cell, afterwards no row
\* below row 1 has it, row 1 is kept, and the rows left are the other rows
\* with their content and order; the write phase leaves exactly those rows
\* above the rows it appends.
C18_ClearDate ==
  /\ \A d \in Dates : \A rows \in WithDatedHeader(ws, DateStr(d)) :
       LET order == SortedDesc(findall(rows, DateStr(d)))
           new   == clear_date(rows, DateStr(d))
       IN /\ \A k \in 1..(Len(order) - 1) : order[k] > order[k + 1]
          /\ \A k \in 1..Len(DeletedCells(rows, order)) :
               DeletedCells(rows, order)[k] = DateStr(d)
          /\ Len(DeletedCells(rows, order)) = Cardinality(findall(rows, DateStr(d)) \ {1})
          /\ findall(new, DateStr(d)) \subseteq {1}
          /\ Len(rows) >= 1 => new[1] = rows[1]
          /\ new = KeptFrom(rows, DateStr(d), 1)
  /\ Returned /\ Len(lastRows) > 0 =>
       SubSeq(ws, 1, Len(ws) - Len(lastRows))
         = KeptFrom(EnsureHeaders(wsBefore), LastDate, 1)

\* the sheet held a row of the date above a row of another date; after the
\* write the other row has moved up and the new rows follow it
C18_Witness ==
  /\ Returned
  /\ Len(lastRows) > 0
  /\ findall(wsBefore, LastDate) = {3}
  /\ Len(wsBefore) = 4
  /\ ws[3] = wsBefore[4]
  /\ findall(ws, LastDate) = 4..Len(ws)

\* a row of the primary tier: no legacy value, the metrics of the date's
\* records of the listing
FromPrimary(row) ==
  /\ row[16] = 0 /\ row[17] = 0
  /\ \E iid \in PrimaryActive(prof.recs, DateStr(current)) :
       /\ row[2] = ToString(iid)
       /\ SubSeq(row, 4, 15) = [ k \in 1..12 |->
            AggVal(prof.recs, DateStr(current), iid, PROFILE_METRICS[k]) ]
       /\ SubSeq(row, 18, 24) = [ k \in 1..7 |->
            AggVal(prof.recs, DateStr(current), iid, PROFILE_METRICS[12 + k]) ]

\* a row of the fallback tier: no primary metric, the legacy values of the
\* listing
FromFallback(row) ==
  /\ PrimaryCells(row) = {0}
  /\ \E iid \in DOMAIN active_map :
       /\ row[2] = ToString(iid)
       /\ row[16] = active_map[iid].uniqViews
       /\ row[17] = active_map[iid].uniqContacts

\* C19: the rows built in one reconciliation of a date are all rows of the
\* primary tier (and then the primary tier returned records and no legacy
\* request was made for the date) or all rows of the fallback tier (and then
\* it returned none or failed); the rows written for the date are those rows.
C19_TiersNeverMix ==
  /\ pc \in {"rows", "v1", "v1rows", "write"} =>
       \/ /\ PrimaryBranch(prof)
          /\ \A k \in 1..Len(rows_out) : FromPrimary(rows_out[k])
          /\ ~\E i \in CallsOf("v1") : calls[i].date = current
       \/ /\ FallbackBranch(prof)
          /\ \A k \in 1..Len(rows_out) : FromFallback(rows_out[k])
  /\ Returned =>
       \/ \A k \in 1..Len(lastRows) : lastRows[k][16] = 0 /\ lastRows[k][17] = 0
       \/ \A k \in 1..Len(lastRows) : PrimaryCells(lastRows[k]) = {0}
  /\ Returned /\ Len(lastRows) > 0 => AsBuilt(DatedRows(ws, LastDate)) = lastRows

\* two rows built by the primary tier, both with views, about to be written
C19_Witness ==
  /\ pc = "write"
  /\ PrimaryBranch(prof)
  /\ Len(rows_out) = 2
  /\ \A k \in 1..2 : rows_out[k][5] > 0 /\ rows_out[k][16] = 0

\* C20: when get_token raises (an HTTP error status, or an answer without
\* access_token) the run is over with the token request as its only call: no
\* listing, metrics or detail request and no worksheet access follows; every
\* other call of a run is made with a token.
C20_AuthFailureAborts ==
  /\ token = "" /\ pc # "token" =>
       /\ pc = "failed"
       /\ Len(calls) = 1 /\ calls[1].op = "token"
       /\ \A e \in httpErrors : e.op = "token"
       /\ runs = 0 /\ processed = <<>> /\ item_ids = <<>>
       /\ ~wsExists => ws = <<>>
       /\ ~ENABLED Next
  /\ \A i \in 1..Len(calls) : calls[i].op # "token" => token # "" /\ i > 1

\* the token endpoint answered 200 without access_token and the run ended
C20_Witness ==
  /\ pc = "failed"
  /\ token = ""
  /\ calls = << Call("token", 0, 200) >>
  /\ httpErrors = {}

\* the promotion snapshot cells of a row: vas_ids, vas_finish_time,
\* vas_next_schedule and the five flags
SnapshotCells(row) == SubSeq(row, 25, 32)

\* C21: the rows one run wrote for the same listing on different dates carry
\* the same promotion snapshot, whatever the detail endpoint answered later.
C21_SnapshotReuse ==
  \A i, j \in 3..Len(ws) :
    ws[i][2] = ws[j][2] => SnapshotCells(ws[i]) = SnapshotCells(ws[j])

\* the date was reconciled by the primary tier: no legacy request was made
PrimaryDate(d) == ~\E i \in CallsOf("v1") : calls[i].date = d

\* row i of the sheet is a row of listing iid written for date d
RowOf(i, iid, d) == ws[i][1] = DateStr(d) /\ ws[i][2] = ToString(iid)

\* C22: for a listing of the listing directory's flag map, a flag written as
\* 1 in its row of a date reconciled by the primary tier is 1 in the map from
\* then on, and is written as 1 in its row of every later date reconciled by
\* the primary tier.
C22_FlagsOnlyGrow ==
  \A iid \in DOMAIN vas_flags : \A d \in Dates : \A i \in 3..Len(ws) :
    RowOf(i, iid, d) /\ PrimaryDate(d) =>
      /\ \A k \in 1..Len(VAS_FLAGS) : ws[i][27 + k] <= vas_flags[iid][VAS_FLAGS[k]]
      /\ \A e \in Dates : \A j \in 3..Len(ws) :
           d < e /\ RowOf(j, iid, e) /\ PrimaryDate(e) =>
             \A k \in 1..Len(VAS_FLAGS) : ws[i][27 + k] <= ws[j][27 + k]

\* listing 1 was written with the vip flag for date 1; for date 2 its detail
\* lookup answered 404 and the row has no promotion, yet the flag is written
C22_Witness ==
  /\ 1 \in DOMAIN vas_flags
  /\ PrimaryDate(1) /\ PrimaryDate(2)
  /\ \E e \in httpErrors : e.op = "detail" /\ e.status = 404 /\ e.date = 2 /\ e.n = 1
  /\ \E i, j \in 3..Len(ws) :
       /\ RowOf(i, 1, 1) /\ ws[i][25] = "vip" /\ ws[i][28] = 1
       /\ RowOf(j, 1, 2) /\ ws[j][25] = "" /\ ws[j][28] = 1

\* C23: every record the fetcher returned is handled by the reconciler without
\* raising, whichever key carries its identifier and its date: a call of
\* process_one_day ends in failure only through a fatal HTTP error.
C23_ShapesAgree ==
  pc = "failed" => \E e \in httpErrors : FatalForDate(e)

====
